---- MODULE Spec2Model ----
(***************************************************************************)
(* Model of the Nexus trade-decision backend (nexus/backend/app).          *)
(*                                                                         *)
(* Units.  Time is an integer clock tick; a UTC calendar day is DayLen     *)
(* ticks.  Percentages (risk, stop distance) are in hundredths of a        *)
(* percent, quality scores in hundredths, slopes in units of 1e-5, the     *)
(* session risk multiplier in tenths.  Message texts are kept as the       *)
(* fixed part of the source's message.                                     *)
(***************************************************************************)
EXTENDS Integers, Sequences, FiniteSets, TLC

VARIABLES
    now,            \* datetime.utcnow(), in ticks
    daily_stats,    \* table daily_stats: the set of DailyStat rows
    beh,            \* BehaviorResult of the last BehaviorService.check
    last_close,     \* per user: arguments of the last update_on_trade_close
    default_session,\* default value of check_trade's `session` parameter
    frame,          \* arguments and locals of the check_trade call being answered
    res,            \* DecisionResult that check_trade returns
    req,            \* in-flight requests of the interleaved specification
    trades          \* table trades: the set of Trade rows

vars == <<now, daily_stats, beh, last_close, default_session, frame, res, req,
          trades>>

(***************************************************************************)
(* Bounds of the model                                                     *)
(***************************************************************************)
DayLen == 3
MaxTime == 5
MaxCloses == 3
NumReqs == 2

Users == {"u1", "u2"}
Pnls == {-1, 0, 1}
None == -1

Date(t) == t \div DayLen

(***************************************************************************)
(* Settings read by the services (behavior.py:48,73)                       *)
(***************************************************************************)
max_trades_per_day == 2
cooldown_minutes_after_two_losses == 2

(***************************************************************************)
(* models.py: DailyStat                                                    *)
(***************************************************************************)
DailyStat(id, user_id, day) ==
    [id |-> id, user_id |-> user_id, day |-> day,
     trades_count |-> 0, wins |-> 0, losses |-> 0,
     realized_pnl |-> 0, consecutive_losses |-> 0,
     cooldown_until |-> None]

\* The primary key is a fresh uuid4; it is modelled by the triple of the
\* user, the day and the request that inserted the row.
NewId(user_id, day, creator) == <<user_id, day, creator>>

\* select(DailyStat).where(user_id == ..., day == ...)
SelectDaily(stats, user_id, day) ==
    {r \in stats : r.user_id = user_id /\ r.day = day}

\* variant: the row is selected by user only, whatever its day
get_or_create_daily_AnyDay(stats, user_id, day) ==
    LET rows == {r \in stats : r.user_id = user_id}
        ds == DailyStat(NewId(user_id, day, 0), user_id, day)
    IN IF rows # {}
       THEN [stats |-> stats, row |-> CHOOSE r \in rows : TRUE]
       ELSE [stats |-> stats \cup {ds}, row |-> ds]

\* variant: the row of the day is replaced by a fresh one on every call
get_or_create_daily_Replace(stats, user_id, day) ==
    LET rows == SelectDaily(stats, user_id, day)
        ds == DailyStat(NewId(user_id, day, 0), user_id, day)
    IN [stats |-> (stats \ rows) \cup {ds}, row |-> ds]

\* BehaviorService.get_or_create_daily, executed without interruption:
\* the table after the call and the row it returns.
get_or_create_daily(stats, user_id, day) ==
    LET rows == SelectDaily(stats, user_id, day)
        ds == DailyStat(NewId(user_id, day, 0), user_id, day)
    IN IF rows # {}
       THEN [stats |-> stats, row |-> CHOOSE r \in rows : TRUE]
       ELSE [stats |-> stats \cup {ds}, row |-> ds]

(***************************************************************************)
(* behavior.py: BehaviorService.check on the row ds at instant t           *)
(***************************************************************************)
BehaviorResult(allowed, reasons, suggested_actions, cooldown_until) ==
    [allowed |-> allowed, reasons |-> reasons,
     suggested_actions |-> suggested_actions,
     cooldown_until |-> cooldown_until]

\* variant: the daily cap is tested before the cooldown
BehaviorCheck_CapFirst(ds, t) ==
    IF ds.trades_count >= max_trades_per_day
    THEN BehaviorResult(FALSE, <<"Max trades/day reached">>,
                        <<"Stop trading for today. Review performance.">>,
                        None)
    ELSE IF ds.cooldown_until # None /\ t < ds.cooldown_until
    THEN BehaviorResult(FALSE, <<"Cooldown active until">>,
                        <<"Wait out the cooldown. Review last two trades.">>,
                        ds.cooldown_until)
    ELSE BehaviorResult(TRUE, <<>>, <<>>, None)

BehaviorCheck(ds, t) ==
    IF ds.cooldown_until # None /\ t < ds.cooldown_until
    THEN BehaviorResult(FALSE, <<"Cooldown active until">>,
                        <<"Wait out the cooldown. Review last two trades.">>,
                        ds.cooldown_until)
    ELSE IF ds.trades_count >= max_trades_per_day
    THEN BehaviorResult(FALSE, <<"Max trades/day reached">>,
                        <<"Stop trading for today. Review performance.">>,
                        None)
    ELSE BehaviorResult(TRUE, <<>>, <<>>, None)

\* variant: the cooldown starts only after three consecutive losses
ApplyClose_ThreeLosses(ds, pnl, t) ==
    LET d1 == [ds EXCEPT !.trades_count = @ + 1, !.realized_pnl = @ + pnl]
        d2 == IF pnl > 0
              THEN [d1 EXCEPT !.wins = @ + 1, !.consecutive_losses = 0]
              ELSE [d1 EXCEPT !.losses = @ + 1, !.consecutive_losses = @ + 1]
    IN IF d2.consecutive_losses >= 3
       THEN [d2 EXCEPT !.cooldown_until = t + cooldown_minutes_after_two_losses]
       ELSE d2

\* variant: a break-even close (pnl = 0) counts neither as a win nor as a loss
ApplyClose_ZeroUncounted(ds, pnl, t) ==
    LET d1 == [ds EXCEPT !.trades_count = @ + 1, !.realized_pnl = @ + pnl]
        d2 == IF pnl > 0
              THEN [d1 EXCEPT !.wins = @ + 1, !.consecutive_losses = 0]
              ELSE IF pnl < 0
              THEN [d1 EXCEPT !.losses = @ + 1, !.consecutive_losses = @ + 1]
              ELSE d1
    IN IF d2.consecutive_losses >= 2
       THEN [d2 EXCEPT !.cooldown_until = t + cooldown_minutes_after_two_losses]
       ELSE d2

\* variant: a winning close does not reset consecutive_losses
ApplyClose_NoReset(ds, pnl, t) ==
    LET d1 == [ds EXCEPT !.trades_count = @ + 1, !.realized_pnl = @ + pnl]
        d2 == IF pnl > 0
              THEN [d1 EXCEPT !.wins = @ + 1]
              ELSE [d1 EXCEPT !.losses = @ + 1, !.consecutive_losses = @ + 1]
    IN IF d2.consecutive_losses >= 2
       THEN [d2 EXCEPT !.cooldown_until = t + cooldown_minutes_after_two_losses]
       ELSE d2

\* behavior.py: the in-memory changes update_on_trade_close makes to ds
ApplyClose(ds, pnl, t) ==
    LET d1 == [ds EXCEPT !.trades_count = @ + 1, !.realized_pnl = @ + pnl]
        d2 == IF pnl > 0
              THEN [d1 EXCEPT !.wins = @ + 1, !.consecutive_losses = 0]
              ELSE [d1 EXCEPT !.losses = @ + 1, !.consecutive_losses = @ + 1]
    IN IF d2.consecutive_losses >= 2
       THEN [d2 EXCEPT !.cooldown_until = t + cooldown_minutes_after_two_losses]
       ELSE d2

RECURSIVE TotalCloses(_)
TotalCloses(stats) ==
    IF stats = {} THEN 0
    ELSE LET r == CHOOSE x \in stats : TRUE
         IN r.trades_count + TotalCloses(stats \ {r})

(***************************************************************************)
(* session.py: SessionService                                              *)
(***************************************************************************)
HourOf(t) == ((t % DayLen) * 24) \div DayLen

asia == [name |-> "ASIA", liquidity |-> "low", risk_multiplier |-> 7]
eu == [name |-> "EU", liquidity |-> "medium", risk_multiplier |-> 9]
us == [name |-> "US", liquidity |-> "high", risk_multiplier |-> 10]
weekend == [name |-> "WEEKEND", liquidity |-> "very low", risk_multiplier |-> 5]

\* variant: the upper end of each hour range is inclusive
detect_InclusiveEnds(hour) ==
    IF 0 <= hour /\ hour <= 7 THEN asia
    ELSE IF 7 <= hour /\ hour <= 13 THEN eu
    ELSE IF 13 <= hour /\ hour <= 21 THEN us
    ELSE weekend

detect(hour) ==
    IF 0 <= hour /\ hour < 7 THEN asia
    ELSE IF 7 <= hour /\ hour < 13 THEN eu
    ELSE IF 13 <= hour /\ hour < 21 THEN us
    ELSE weekend

(***************************************************************************)
(* regime.py: the regime of a series from its regression slope (line 50)   *)
(***************************************************************************)
trend_slope_threshold == 25

Abs(x) == IF x < 0 THEN -x ELSE x

RegimeResult(slope, volatility_state) ==
    [regime |-> IF Abs(slope) >= trend_slope_threshold THEN "trend" ELSE "range",
     volatility_state |-> volatility_state,
     slope |-> slope]

(***************************************************************************)
(* regime_multi.py: MultiTimeframeRegimeService.combine                    *)
(* confidence is kept in units of 1/ConfDen                                *)
(***************************************************************************)
ConfDen == 120000
SlopeScale == 200

Max(a, b) == IF a >= b THEN a ELSE b
Min(a, b) == IF a <= b THEN a ELSE b
\* variant: the value is not clamped
Clip_Unclamped(x, lo, hi) == x

Clip(x, lo, hi) == IF x < lo THEN lo ELSE IF x > hi THEN hi ELSE x

RECURSIVE SumAbsSlope(_, _)
SumAbsSlope(per_tf, tfs) ==
    IF tfs = {} THEN 0
    ELSE LET tf == CHOOSE x \in tfs : TRUE
         IN Abs(per_tf[tf].slope) + SumAbsSlope(per_tf, tfs \ {tf})

\* variant: regime agreement is the share of the minority vote
combine_MinorityAgree(per_tf) ==
    LET n == Cardinality(DOMAIN per_tf)
        trend_votes == Cardinality({tf \in DOMAIN per_tf : per_tf[tf].regime = "trend"})
        range_votes == n - trend_votes
        final_regime == IF trend_votes > range_votes THEN "trend" ELSE "range"
        high_vol_votes ==
            Cardinality({tf \in DOMAIN per_tf : per_tf[tf].volatility_state = "high"})
        final_vol == IF high_vol_votes >= 2 THEN "high" ELSE "low"
        agree_vol_votes == IF final_vol = "high" THEN high_vol_votes
                           ELSE n - high_vol_votes
        regime_part == (66000 * Min(trend_votes, range_votes)) \div Max(1, n)
        vol_part == (30000 * agree_vol_votes) \div Max(1, n)
        slope_part == Clip((24000 * SumAbsSlope(per_tf, DOMAIN per_tf))
                              \div (SlopeScale * n), 0, 24000)
    IN [final_regime |-> final_regime,
        final_volatility |-> final_vol,
        confidence |-> Clip(regime_part + vol_part + slope_part, 0, ConfDen)]

\* variant: the volatility is high when most timeframes report high
combine_MajorityVol(per_tf) ==
    LET n == Cardinality(DOMAIN per_tf)
        trend_votes == Cardinality({tf \in DOMAIN per_tf : per_tf[tf].regime = "trend"})
        range_votes == n - trend_votes
        final_regime == IF trend_votes > range_votes THEN "trend" ELSE "range"
        high_vol_votes ==
            Cardinality({tf \in DOMAIN per_tf : per_tf[tf].volatility_state = "high"})
        final_vol == IF 2 * high_vol_votes > n THEN "high" ELSE "low"
        agree_vol_votes == IF final_vol = "high" THEN high_vol_votes
                           ELSE n - high_vol_votes
        regime_part == (66000 * Max(trend_votes, range_votes)) \div Max(1, n)
        vol_part == (30000 * agree_vol_votes) \div Max(1, n)
        slope_part == Clip((24000 * SumAbsSlope(per_tf, DOMAIN per_tf))
                              \div (SlopeScale * n), 0, 24000)
    IN [final_regime |-> final_regime,
        final_volatility |-> final_vol,
        confidence |-> Clip(regime_part + vol_part + slope_part, 0, ConfDen)]

\* variant: a tie between trend and range votes resolves to trend
combine_TieTrend(per_tf) ==
    LET n == Cardinality(DOMAIN per_tf)
        trend_votes == Cardinality({tf \in DOMAIN per_tf : per_tf[tf].regime = "trend"})
        range_votes == n - trend_votes
        final_regime == IF trend_votes >= range_votes THEN "trend" ELSE "range"
        high_vol_votes ==
            Cardinality({tf \in DOMAIN per_tf : per_tf[tf].volatility_state = "high"})
        final_vol == IF high_vol_votes >= 2 THEN "high" ELSE "low"
        agree_vol_votes == IF final_vol = "high" THEN high_vol_votes
                           ELSE n - high_vol_votes
        regime_part == (66000 * Max(trend_votes, range_votes)) \div Max(1, n)
        vol_part == (30000 * agree_vol_votes) \div Max(1, n)
        slope_part == Clip((24000 * SumAbsSlope(per_tf, DOMAIN per_tf))
                              \div (SlopeScale * n), 0, 24000)
    IN [final_regime |-> final_regime,
        final_volatility |-> final_vol,
        confidence |-> Clip(regime_part + vol_part + slope_part, 0, ConfDen)]

combine(per_tf) ==
    LET n == Cardinality(DOMAIN per_tf)
        trend_votes == Cardinality({tf \in DOMAIN per_tf : per_tf[tf].regime = "trend"})
        range_votes == n - trend_votes
        final_regime == IF trend_votes > range_votes THEN "trend" ELSE "range"
        high_vol_votes ==
            Cardinality({tf \in DOMAIN per_tf : per_tf[tf].volatility_state = "high"})
        final_vol == IF high_vol_votes >= 2 THEN "high" ELSE "low"
        agree_vol_votes == IF final_vol = "high" THEN high_vol_votes
                           ELSE n - high_vol_votes
        \* 0.55 * agree_regime and 0.25 * agree_vol
        regime_part == (66000 * Max(trend_votes, range_votes)) \div Max(1, n)
        vol_part == (30000 * agree_vol_votes) \div Max(1, n)
        \* 0.20 * clip(mean(|slope|) / 0.002, 0, 1)
        slope_part == Clip((24000 * SumAbsSlope(per_tf, DOMAIN per_tf))
                              \div (SlopeScale * n), 0, 24000)
    IN [final_regime |-> final_regime,
        final_volatility |-> final_vol,
        confidence |-> Clip(regime_part + vol_part + slope_part, 0, ConfDen)]

(***************************************************************************)
(* regime.py: RegimeService.classify on a series of closes                 *)
(* log-prices and returns are kept in units of 1e-3, standard deviations   *)
(* in units of 1e-4 (rounded down), the slope in units of 1e-5 (rounded    *)
(* toward zero); the 1e-9 added to the regression denominator only matters *)
(* when that denominator is 0                                              *)
(***************************************************************************)
high_vol_percentile_threshold == 80
RegressionWindow == 120
RollingWindow == 30
MinReturns == 60
MinRollingSamples == 10

\* np.log(close + 1e-9) for the closes of the model
Log(close) == CASE close = 100 -> 4605 [] close = 101 -> 4615 [] close = 110 -> 4700

\* s[lo] + ... + s[hi]
RECURSIVE SumRange(_, _, _)
SumRange(s, lo, hi) ==
    IF lo > hi THEN 0
    ELSE IF lo = hi THEN s[lo]
    ELSE LET mid == (lo + hi) \div 2
         IN SumRange(s, lo, mid) + SumRange(s, mid + 1, hi)

SumTo(s, i) == SumRange(s, 1, i)

\* the largest k with k * k <= n
RECURSIVE IsqrtIter(_, _, _)
IsqrtIter(n, lo, hi) ==
    IF lo = hi THEN lo
    ELSE LET mid == (lo + hi + 1) \div 2
         IN IF mid * mid <= n THEN IsqrtIter(n, mid, hi) ELSE IsqrtIter(n, lo, mid - 1)

Isqrt(n) == IsqrtIter(n, 0, Min(n, 46340))

\* (100 * a) \div b for a >= 0, b > 0, without forming 100 * a
MulDiv100(a, b) ==
    LET r1 == (a % b) * 10
        r2 == (r1 % b) * 10
    IN (a \div b) * 100 + (r1 \div b) * 10 + (r2 \div b)

\* k * k times the population variance of the k values of rs
VarNum(rs, k) ==
    LET sum == SumTo(rs, k)
        sumsq == SumTo([i \in 1 .. k |-> rs[i] * rs[i]], k)
    IN k * sumsq - sum * sum

\* np.std(rs): population standard deviation
StdPop(rs) ==
    LET k == Len(rs) IN Isqrt(((VarNum(rs, k) \div k) * 100) \div k)

\* pd.Series(rets).rolling(30).std().dropna(): sample standard deviations
RollingStd(rets) ==
    [j \in 1 .. (Len(rets) - (RollingWindow - 1)) |->
        LET w == [i \in 1 .. RollingWindow |-> rets[j + i - 1]]
        IN Isqrt((VarNum(w, RollingWindow) * 100)
                    \div (RollingWindow * (RollingWindow - 1)))]

\* the k-th smallest value of vols, k counted from 0
Kth(vols, k) ==
    CHOOSE v \in {vols[i] : i \in DOMAIN vols} :
        /\ Cardinality({i \in DOMAIN vols : vols[i] < v}) <= k
        /\ Cardinality({i \in DOMAIN vols : vols[i] <= v}) > k

\* 100 * np.quantile(vols, q / 100): linear interpolation between order statistics
Quantile100(vols, q) ==
    LET h == (Len(vols) - 1) * q
        lo == h \div 100
        fr == h % 100
    IN IF fr = 0 THEN 100 * Kth(vols, lo)
       ELSE 100 * Kth(vols, lo) + fr * (Kth(vols, lo + 1) - Kth(vols, lo))

\* variant: the rolling threshold is used from 60 returns on
classify_SixtyReturns(close) ==
    LET n == Len(close)
        logp == [i \in 1 .. n |-> Log(close[i])]
        window == Min(RegressionWindow, n)
        y == [i \in 1 .. window |-> logp[n - window + i]]
        sum_y == SumTo(y, window)
        \* 2 * window * sum((x - x_mean) * (y - y_mean))
        sxy == SumTo([i \in 1 .. window |->
                        (2 * (i - 1) - (window - 1)) * (window * y[i] - sum_y)], window)
        \* 4 * sum((x - x_mean) ** 2)
        sxx == SumTo([i \in 1 .. window |->
                        (2 * (i - 1) - (window - 1)) * (2 * (i - 1) - (window - 1))], window)
        slope == IF sxx = 0 THEN 0
                 ELSE IF sxy < 0 THEN -MulDiv100(2 * (-sxy), window * sxx)
                 ELSE MulDiv100(2 * sxy, window * sxx)
        rets == [i \in 1 .. (n - 1) |-> logp[i + 1] - logp[i]]
        nrets == Max(n - 1, 0)
        recent == IF nrets >= window
                  THEN [i \in 1 .. window |-> rets[nrets - window + i]]
                  ELSE rets
        volatility_state ==
            IF nrets >= MinReturns
            THEN LET vols == RollingStd(rets)
                 IN IF Len(vols) > MinRollingSamples
                    THEN IF 100 * StdPop(recent)
                              >= Quantile100(vols, high_vol_percentile_threshold)
                         THEN "high" ELSE "low"
                    ELSE "low"
            ELSE "low"
    IN RegimeResult(slope, volatility_state)

classify(close) ==
    LET n == Len(close)
        logp == [i \in 1 .. n |-> Log(close[i])]
        window == Min(RegressionWindow, n)
        y == [i \in 1 .. window |-> logp[n - window + i]]
        sum_y == SumTo(y, window)
        \* 2 * window * sum((x - x_mean) * (y - y_mean))
        sxy == SumTo([i \in 1 .. window |->
                        (2 * (i - 1) - (window - 1)) * (window * y[i] - sum_y)], window)
        \* 4 * sum((x - x_mean) ** 2)
        sxx == SumTo([i \in 1 .. window |->
                        (2 * (i - 1) - (window - 1)) * (2 * (i - 1) - (window - 1))], window)
        slope == IF sxx = 0 THEN 0
                 ELSE IF sxy < 0 THEN -MulDiv100(2 * (-sxy), window * sxx)
                 ELSE MulDiv100(2 * sxy, window * sxx)
        rets == [i \in 1 .. (n - 1) |-> logp[i + 1] - logp[i]]
        nrets == Max(n - 1, 0)
        recent == IF nrets >= window
                  THEN [i \in 1 .. window |-> rets[nrets - window + i]]
                  ELSE rets
        volatility_state ==
            IF nrets > MinReturns
            THEN LET vols == RollingStd(rets)
                 IN IF Len(vols) > MinRollingSamples
                    THEN IF 100 * StdPop(recent)
                              >= Quantile100(vols, high_vol_percentile_threshold)
                         THEN "high" ELSE "low"
                    ELSE "low"
            ELSE "low"
    IN RegimeResult(slope, volatility_state)

(***************************************************************************)
(* risk.py: RiskService.compute                                            *)
(* position_size_usd is the exact fraction num / den                       *)
(***************************************************************************)
max_risk_per_trade_pct == 100
HighVolRiskPct == 50
MinStopDistancePct == 5

\* variant: the stop distance is used as given, without the floor
compute_NoStopFloor(account_equity, intended_risk_pct, stop_distance_pct, volatility_state) ==
    LET r0 == Min(intended_risk_pct, max_risk_per_trade_pct)
        reasons0 == IF intended_risk_pct > max_risk_per_trade_pct
                    THEN <<"Risk capped to max (beginner-safe limit).">>
                    ELSE <<>>
        risk_pct == IF volatility_state = "high" THEN Min(r0, HighVolRiskPct) ELSE r0
        reasons == IF volatility_state = "high"
                   THEN Append(reasons0, "High volatility detected, risk reduced to 0.50%.")
                   ELSE reasons0
    IN [final_risk_pct |-> risk_pct,
        position_size_usd |-> [num |-> account_equity * risk_pct,
                               den |-> stop_distance_pct],
        reasons |-> reasons]

\* variant: the ratio of risk to stop distance is inverted
compute_InvertedRatio(account_equity, intended_risk_pct, stop_distance_pct, volatility_state) ==
    LET r0 == Min(intended_risk_pct, max_risk_per_trade_pct)
        reasons0 == IF intended_risk_pct > max_risk_per_trade_pct
                    THEN <<"Risk capped to max (beginner-safe limit).">>
                    ELSE <<>>
        risk_pct == IF volatility_state = "high" THEN Min(r0, HighVolRiskPct) ELSE r0
        reasons == IF volatility_state = "high"
                   THEN Append(reasons0, "High volatility detected, risk reduced to 0.50%.")
                   ELSE reasons0
        stop == Max(stop_distance_pct, MinStopDistancePct)
    IN [final_risk_pct |-> risk_pct,
        position_size_usd |-> [num |-> account_equity * stop, den |-> risk_pct],
        reasons |-> reasons]

\* variant: high volatility records its reason but does not reduce the risk
compute_NoHighVolCap(account_equity, intended_risk_pct, stop_distance_pct, volatility_state) ==
    LET r0 == Min(intended_risk_pct, max_risk_per_trade_pct)
        reasons0 == IF intended_risk_pct > max_risk_per_trade_pct
                    THEN <<"Risk capped to max (beginner-safe limit).">>
                    ELSE <<>>
        reasons == IF volatility_state = "high"
                   THEN Append(reasons0, "High volatility detected, risk reduced to 0.50%.")
                   ELSE reasons0
        stop == Max(stop_distance_pct, MinStopDistancePct)
    IN [final_risk_pct |-> r0,
        position_size_usd |-> [num |-> account_equity * r0, den |-> stop],
        reasons |-> reasons]

compute(account_equity, intended_risk_pct, stop_distance_pct, volatility_state) ==
    LET r0 == Min(intended_risk_pct, max_risk_per_trade_pct)
        reasons0 == IF intended_risk_pct > max_risk_per_trade_pct
                    THEN <<"Risk capped to max (beginner-safe limit).">>
                    ELSE <<>>
        risk_pct == IF volatility_state = "high" THEN Min(r0, HighVolRiskPct) ELSE r0
        reasons == IF volatility_state = "high"
                   THEN Append(reasons0, "High volatility detected, risk reduced to 0.50%.")
                   ELSE reasons0
        stop == Max(stop_distance_pct, MinStopDistancePct)
    IN [final_risk_pct |-> risk_pct,
        position_size_usd |-> [num |-> account_equity * risk_pct, den |-> stop],
        reasons |-> reasons]

(***************************************************************************)
(* decision.py: DecisionService                                            *)
(***************************************************************************)
Strategies == {"breakout", "Range Breakout", "mean_reversion"}

\* str.lower() on the strategy names of the model
Lower(s) == IF s = "Range Breakout" THEN "range breakout" ELSE s

strategy_fit_score(regime, volatility, strategy) ==
    LET hit1 == Lower(strategy) = "breakout" /\ regime = "RANGE"
        s1 == IF hit1 THEN 100 - 35 ELSE 100
        r1 == IF hit1 THEN <<"Breakout strategy underperforms in range markets.">>
              ELSE <<>>
        s2 == IF volatility = "high" THEN s1 - 15 ELSE s1
        r2 == IF volatility = "high"
              THEN Append(r1, "High volatility increases false signals.") ELSE r1
        s3 == IF volatility = "low" THEN s2 - 10 ELSE s2
        r3 == IF volatility = "low"
              THEN Append(r2, "Low volatility reduces momentum follow-through.") ELSE r2
    IN [score |-> Max(s3, 0), reasons |-> r3]

\* f"{final_regime} (conf {confidence:.2f})": the confidence to two decimals
market_regime_label(m) ==
    [regime |-> m.final_regime,
     conf |-> (m.confidence * 200 + ConfDen) \div (2 * ConfDen)]

DecisionResult(decision, quality_score, risk, reasons, suggested_actions, m) ==
    [decision |-> decision,
     quality_score |-> quality_score,
     risk_pct |-> risk.final_risk_pct,
     position_size_usd |-> risk.position_size_usd,
     reasons |-> reasons,
     suggested_actions |-> suggested_actions,
     market_regime |-> market_regime_label(m),
     volatility_state |-> m.final_volatility]

\* variant: the follow-your-plan suggestion is appended to every ALLOW or WARN
check_trade_ladder_AlwaysGeneric(quality_score, fit_reasons, m, risk) ==
    LET low_conf == m.confidence * 100 < 45 * ConfDen
        reasons == IF low_conf
                   THEN Append(fit_reasons \o risk.reasons,
                               "Low regime confidence, conditions unclear.")
                   ELSE fit_reasons \o risk.reasons
        sug0 == IF low_conf
                THEN <<"Proceed only with extra confirmation; consider reducing size.">>
                ELSE <<>>
        decision == IF quality_score < 55 THEN "WARN" ELSE "ALLOW"
        sug1 == IF quality_score < 55
                THEN Append(sug0, "Lower position size or wait for confirmation.")
                ELSE sug0
        sug2 == IF m.final_volatility = "high"
                THEN Append(sug1, "Use wider stops or smaller size; expect faster swings.")
                ELSE sug1
        sug3 == Append(sug2,
                  "Proceed only if your setup matches your plan and stop is respected.")
    IN IF low_conf /\ quality_score < 55
       THEN DecisionResult("BLOCK", quality_score, risk, reasons,
                           <<"Wait for clearer market structure.",
                             "Switch timeframe to 15m for confirmation.">>, m)
       ELSE IF quality_score < 35
       THEN DecisionResult("BLOCK", quality_score, risk,
                           Append(reasons, "Trade quality score too low."),
                           <<"Wait for a clearer setup.",
                             "Consider changing strategy for the current regime.">>, m)
       ELSE DecisionResult(decision, quality_score, risk, reasons, sug3, m)

\* variant: a score of exactly 0.55 is still downgraded to WARN
check_trade_ladder_WarnAt55(quality_score, fit_reasons, m, risk) ==
    LET low_conf == m.confidence * 100 < 45 * ConfDen
        reasons == IF low_conf
                   THEN Append(fit_reasons \o risk.reasons,
                               "Low regime confidence, conditions unclear.")
                   ELSE fit_reasons \o risk.reasons
        sug0 == IF low_conf
                THEN <<"Proceed only with extra confirmation; consider reducing size.">>
                ELSE <<>>
        decision == IF quality_score <= 55 THEN "WARN" ELSE "ALLOW"
        sug1 == IF quality_score <= 55
                THEN Append(sug0, "Lower position size or wait for confirmation.")
                ELSE sug0
        sug2 == IF m.final_volatility = "high"
                THEN Append(sug1, "Use wider stops or smaller size; expect faster swings.")
                ELSE sug1
        sug3 == IF sug2 = <<>>
                THEN <<"Proceed only if your setup matches your plan and stop is respected.">>
                ELSE sug2
    IN IF low_conf /\ quality_score < 55
       THEN DecisionResult("BLOCK", quality_score, risk, reasons,
                           <<"Wait for clearer market structure.",
                             "Switch timeframe to 15m for confirmation.">>, m)
       ELSE IF quality_score < 35
       THEN DecisionResult("BLOCK", quality_score, risk,
                           Append(reasons, "Trade quality score too low."),
                           <<"Wait for a clearer setup.",
                             "Consider changing strategy for the current regime.">>, m)
       ELSE DecisionResult(decision, quality_score, risk, reasons, sug3, m)

\* decision.py:141-208, the steps of check_trade after the fit score,
\* from the fit score, the fit reasons, the aggregate m and the risk result
check_trade_ladder(quality_score, fit_reasons, m, risk) ==
    LET low_conf == m.confidence * 100 < 45 * ConfDen
        reasons == IF low_conf
                   THEN Append(fit_reasons \o risk.reasons,
                               "Low regime confidence, conditions unclear.")
                   ELSE fit_reasons \o risk.reasons
        sug0 == IF low_conf
                THEN <<"Proceed only with extra confirmation; consider reducing size.">>
                ELSE <<>>
        decision == IF quality_score < 55 THEN "WARN" ELSE "ALLOW"
        sug1 == IF quality_score < 55
                THEN Append(sug0, "Lower position size or wait for confirmation.")
                ELSE sug0
        sug2 == IF m.final_volatility = "high"
                THEN Append(sug1, "Use wider stops or smaller size; expect faster swings.")
                ELSE sug1
        sug3 == IF sug2 = <<>>
                THEN <<"Proceed only if your setup matches your plan and stop is respected.">>
                ELSE sug2
    IN IF low_conf /\ quality_score < 55
       THEN DecisionResult("BLOCK", quality_score, risk, reasons,
                           <<"Wait for clearer market structure.",
                             "Switch timeframe to 15m for confirmation.">>, m)
       ELSE IF quality_score < 35
       THEN DecisionResult("BLOCK", quality_score, risk,
                           Append(reasons, "Trade quality score too low."),
                           <<"Wait for a clearer setup.",
                             "Consider changing strategy for the current regime.">>, m)
       ELSE DecisionResult(decision, quality_score, risk, reasons, sug3, m)

\* variant: the session multiplier also scales the position size
check_trade_SizeScaled(b, per_tf, strategy, account_equity, intended_risk_pct, stop_distance_pct, session) ==
    LET m == combine(per_tf)
        risk0 == compute(account_equity, intended_risk_pct, stop_distance_pct,
                         m.final_volatility)
        risk == [risk0 EXCEPT !.final_risk_pct = @ * session.risk_multiplier,
                              !.position_size_usd =
                                  [num |-> @.num * session.risk_multiplier,
                                   den |-> @.den * 10]]
        fit == strategy_fit_score(m.final_regime, m.final_volatility, strategy)
    IN IF ~b.allowed
       THEN [beh |-> b, multi |-> m, risk |-> risk,
             result |-> DecisionResult("BLOCK", 0, risk, b.reasons \o risk.reasons,
                           Append(b.suggested_actions, "Switch to paper review mode."),
                           m)]
       ELSE [beh |-> b, multi |-> m, risk |-> risk,
             result |-> check_trade_ladder(fit.score, fit.reasons, m, risk)]

\* variant: the behaviour block reports the fit score instead of 0
check_trade_BlockKeepsScore(b, per_tf, strategy, account_equity, intended_risk_pct, stop_distance_pct, session) ==
    LET m == combine(per_tf)
        risk0 == compute(account_equity, intended_risk_pct, stop_distance_pct,
                         m.final_volatility)
        risk == [risk0 EXCEPT !.final_risk_pct = @ * session.risk_multiplier]
        fit == strategy_fit_score(m.final_regime, m.final_volatility, strategy)
    IN IF ~b.allowed
       THEN [beh |-> b, multi |-> m, risk |-> risk,
             result |-> DecisionResult("BLOCK", fit.score, risk,
                           b.reasons \o risk.reasons,
                           Append(b.suggested_actions, "Switch to paper review mode."),
                           m)]
       ELSE [beh |-> b, multi |-> m, risk |-> risk,
             result |-> check_trade_ladder(fit.score, fit.reasons, m, risk)]

\* decision.py:95-208, DecisionService.check_trade after behavior.check
\* returned b and classify returned per_tf: the locals of the call and the
\* DecisionResult it returns
check_trade(b, per_tf, strategy, account_equity, intended_risk_pct, stop_distance_pct, session) ==
    LET m == combine(per_tf)
        risk0 == compute(account_equity, intended_risk_pct, stop_distance_pct,
                         m.final_volatility)
        risk == [risk0 EXCEPT !.final_risk_pct = @ * session.risk_multiplier]
        fit == strategy_fit_score(m.final_regime, m.final_volatility, strategy)
    IN IF ~b.allowed
       THEN [beh |-> b, multi |-> m, risk |-> risk,
             result |-> DecisionResult("BLOCK", 0, risk, b.reasons \o risk.reasons,
                           Append(b.suggested_actions, "Switch to paper review mode."),
                           m)]
       ELSE [beh |-> b, multi |-> m, risk |-> risk,
             result |-> check_trade_ladder(fit.score, fit.reasons, m, risk)]

(***************************************************************************)
(* Inputs of check_trade                                                   *)
(***************************************************************************)
RegimeResults == {RegimeResult(0, "low"), RegimeResult(0, "high"),
                  RegimeResult(-30, "high"), RegimeResult(250, "high")}
TFSets == {{"1m"}, {"1m", "5m"}, {"1m", "5m", "15m"}}
PerTFs == UNION {[tfs -> RegimeResults] : tfs \in TFSets}
DecisionUsers == {"u1"}
Equities == {10000}
IntendedRisks == {50, 200}
StopDistances == {1, 100}

NoRes == [decision |-> "none"]
NoBeh == [allowed |-> TRUE, reasons |-> <<>>, suggested_actions |-> <<>>,
          cooldown_until |-> None, user_id |-> "none"]
NoFrame == [user_id |-> "none"]
NoClose == [pnl |-> 0, day |-> None]

(***************************************************************************)
(* Serial specification: every handler runs to completion                 *)
(***************************************************************************)
Init ==
    /\ now = 0
    /\ daily_stats = {}
    /\ beh = NoBeh
    /\ last_close = [u \in Users |-> NoClose]
    /\ default_session = detect(HourOf(now))
    /\ frame = NoFrame
    /\ res = NoRes
    /\ req = <<>>
    /\ trades = {}

Tick ==
    /\ now < MaxTime
    /\ now' = now + 1
    /\ UNCHANGED <<daily_stats, beh, last_close, default_session, frame, res, req, trades>>

Check(u) ==
    LET g == get_or_create_daily(daily_stats, u, Date(now))
        r == BehaviorCheck(g.row, now)
    IN /\ daily_stats' = g.stats
       /\ beh' = [allowed |-> r.allowed, reasons |-> r.reasons,
                  suggested_actions |-> r.suggested_actions,
                  cooldown_until |-> r.cooldown_until,
                  user_id |-> u]
       /\ UNCHANGED <<now, last_close, default_session, frame, res, req, trades>>

UpdateOnTradeClose(u, pnl) ==
    LET g == get_or_create_daily(daily_stats, u, Date(now)) IN
    /\ TotalCloses(daily_stats) < MaxCloses
    /\ daily_stats' = (g.stats \ {g.row}) \cup {ApplyClose(g.row, pnl, now)}
    /\ last_close' = [last_close EXCEPT ![u] = [pnl |-> pnl, day |-> Date(now)]]
    /\ UNCHANGED <<now, beh, default_session, frame, res, req, trades>>

(***************************************************************************)
(* Properties of the behaviour guard (specification Spec)                  *)
(***************************************************************************)
\* the result BehaviorService.check would return for user u in table stats at t
CheckAt(stats, u, t) == BehaviorCheck(get_or_create_daily(stats, u, Date(t)).row, t)

CooldownActive(ds, t) == ds.cooldown_until # None /\ t < ds.cooldown_until
AtCap(ds) == ds.trades_count >= max_trades_per_day

\* C1: when a user's close with pnl <= 0 directly follows another close with
\* pnl <= 0 of the same user on the same day (no winning close between
\* them), a check made at the instant of the second close returns
\* allowed = False with a non-null cooldown_until, whatever the record held.
C1_TwoLossesThenBlocked ==
    [][\A u \in Users, pnl \in Pnls :
        ( /\ pnl <= 0
          /\ last_close[u].day = Date(now)
          /\ last_close[u].pnl <= 0
          /\ UpdateOnTradeClose(u, pnl) )
        => /\ ~CheckAt(daily_stats', u, now').allowed
           /\ CheckAt(daily_stats', u, now').cooldown_until # None]_vars

C1_Witness ==
    \E r \in daily_stats :
        /\ r.day = Date(now)
        /\ r.wins >= 1
        /\ r.consecutive_losses = 2
        /\ r.cooldown_until = now + cooldown_minutes_after_two_losses
        /\ last_close[r.user_id].pnl <= 0
        /\ beh.user_id = r.user_id
        /\ ~beh.allowed
        /\ beh.cooldown_until = r.cooldown_until

\* C2: every DailyStat record satisfies trades_count == wins + losses.
C2_CountsAddUp ==
    \A r \in daily_stats : r.trades_count = r.wins + r.losses

C2_Witness ==
    \E r \in daily_stats :
        r.trades_count = 3 /\ r.wins >= 1 /\ r.losses >= 1 /\ r.realized_pnl = 0

\* C4: once a cooldown_until = T has been stored for a user, every check of
\* that user at a time now < T returns allowed = False, whatever the UTC day
\* of now is.
C4_CooldownLastsUntilT ==
    \A r \in daily_stats :
        (r.cooldown_until # None /\ now < r.cooldown_until)
            => ~CheckAt(daily_stats, r.user_id, now).allowed

\* C5: check returns allowed = False exactly when a cooldown is active or the
\* daily cap is reached; the cooldown is tested first, so with both the result
\* carries only the cooldown reason and the record's cooldown_until, and with
\* the cap alone cooldown_until is None.
C5_CheckResult ==
    [][\A u \in Users :
        Check(u) =>
          LET ds == CHOOSE r \in SelectDaily(daily_stats', u, Date(now)) : TRUE IN
          /\ beh'.allowed <=> ~(CooldownActive(ds, now) \/ AtCap(ds))
          /\ CooldownActive(ds, now) =>
                /\ beh'.reasons = <<"Cooldown active until">>
                /\ beh'.cooldown_until = ds.cooldown_until
                /\ beh'.cooldown_until # None
          /\ (~CooldownActive(ds, now) /\ AtCap(ds)) =>
                /\ beh'.reasons = <<"Max trades/day reached">>
                /\ beh'.cooldown_until = None
          /\ beh'.allowed => (beh'.reasons = <<>> /\ beh'.cooldown_until = None)]_vars

C5_Witness ==
    \E r \in daily_stats :
        /\ r.user_id = beh.user_id
        /\ r.day = Date(now)
        /\ AtCap(r)
        /\ CooldownActive(r, now)
        /\ ~beh.allowed
        /\ beh.reasons = <<"Cooldown active until">>
        /\ beh.cooldown_until = r.cooldown_until

\* decision.py:81-208 with behavior.py:35-53: one check_trade call
CheckTrade(u, per_tf, strategy, account_equity, intended_risk_pct, stop_distance_pct) ==
    LET g == get_or_create_daily(daily_stats, u, Date(now))
        c == check_trade(BehaviorCheck(g.row, now), per_tf, strategy,
                         account_equity, intended_risk_pct, stop_distance_pct,
                         default_session)
    IN /\ res = NoRes
       /\ daily_stats' = g.stats
       /\ frame' = [user_id |-> u, per_tf |-> per_tf, strategy |-> strategy,
                    account_equity |-> account_equity,
                    intended_risk_pct |-> intended_risk_pct,
                    stop_distance_pct |-> stop_distance_pct,
                    at |-> now,
                    beh |-> c.beh, multi |-> c.multi, risk |-> c.risk]
       /\ res' = c.result
       /\ UNCHANGED <<now, beh, last_close, default_session, req, trades>>

\* main.py:111-120: the endpoint returns the response; the call's frame is gone
Return ==
    /\ res # NoRes
    /\ frame' = NoFrame
    /\ res' = NoRes
    /\ UNCHANGED <<now, daily_stats, beh, last_close, default_session, req, trades>>

Next ==
    \/ Tick
    \/ \E u \in Users : Check(u)
    \/ \E u \in Users, pnl \in Pnls : UpdateOnTradeClose(u, pnl)

Spec == Init /\ [][Next]_vars

\* one request is answered before the next one is handled
NextDecision ==
    \/ Return
    \/ res = NoRes /\ \E u \in DecisionUsers, pnl \in Pnls : UpdateOnTradeClose(u, pnl)
    \/ \E u \in DecisionUsers, per_tf \in PerTFs, strategy \in Strategies,
          account_equity \in Equities, intended_risk_pct \in IntendedRisks,
          stop_distance_pct \in StopDistances :
            CheckTrade(u, per_tf, strategy, account_equity, intended_risk_pct,
                       stop_distance_pct)

SpecDecision == Init /\ [][NextDecision]_vars

(***************************************************************************)
(* Specification of the decision ladder alone: decision.py:141-208 applied *)
(* to fit scores and confidences over their whole range                    *)
(***************************************************************************)
QualityScores == {0, 34, 35, 50, 54, 55, 85, 90, 100}
Confidences == {0, 52800, 54000, 66000, 120000}
Regimes == {"trend", "range"}
VolStates == {"high", "low"}

Ladder(quality_score, regime, volatility, confidence, intended_risk_pct) ==
    LET m == [final_regime |-> regime, final_volatility |-> volatility,
              confidence |-> confidence]
        risk0 == compute(10000, intended_risk_pct, 100, volatility)
        risk == [risk0 EXCEPT !.final_risk_pct = @ * default_session.risk_multiplier]
        fit == strategy_fit_score(regime, volatility, "mean_reversion")
    IN /\ res = NoRes
       /\ frame' = [user_id |-> "u1", beh |-> BehaviorResult(TRUE, <<>>, <<>>, None),
                    multi |-> m, risk |-> risk]
       /\ res' = check_trade_ladder(quality_score, fit.reasons, m, risk)
       /\ UNCHANGED <<now, daily_stats, beh, last_close, default_session, req, trades>>

NextLadder ==
    \/ Return
    \/ \E q \in QualityScores, regime \in Regimes, volatility \in VolStates,
          confidence \in Confidences, intended_risk_pct \in IntendedRisks :
            Ladder(q, regime, volatility, confidence, intended_risk_pct)

SpecLadder == Init /\ [][NextLadder]_vars

\* the record of (u, day) in the table stats
RowOf(stats, u, day) == CHOOSE r \in SelectDaily(stats, u, day) : TRUE

\* the record of (u, today) a call starts from: the stored one, or a fresh one
RowBefore(u) ==
    IF SelectDaily(daily_stats, u, Date(now)) = {}
    THEN [RowOf(daily_stats', u, Date(now)) EXCEPT
            !.trades_count = 0, !.wins = 0, !.losses = 0, !.realized_pnl = 0,
            !.consecutive_losses = 0, !.cooldown_until = None]
    ELSE RowOf(daily_stats, u, Date(now))

\* C19: one update_on_trade_close call increments trades_count by 1 and adds
\* pnl to realized_pnl; pnl > 0 increments wins and zeroes consecutive_losses,
\* pnl <= 0 increments losses and consecutive_losses; cooldown_until is set to
\* now + cooldown minutes if and only if the resulting consecutive_losses >= 2
C19_UpdateOnTradeCloseStep ==
    [][\A u \in Users, pnl \in Pnls :
        UpdateOnTradeClose(u, pnl) =>
            LET old == RowBefore(u)
                new == RowOf(daily_stats', u, Date(now))
            IN /\ new.trades_count = old.trades_count + 1
               /\ new.realized_pnl = old.realized_pnl + pnl
               /\ pnl > 0 => /\ new.wins = old.wins + 1
                             /\ new.losses = old.losses
                             /\ new.consecutive_losses = 0
               /\ pnl <= 0 => /\ new.losses = old.losses + 1
                              /\ new.wins = old.wins
                              /\ new.consecutive_losses = old.consecutive_losses + 1
               /\ new.consecutive_losses >= 2
                    => new.cooldown_until = now + cooldown_minutes_after_two_losses
               /\ new.consecutive_losses < 2
                    => new.cooldown_until = old.cooldown_until]_vars

\* a loss, a win and a loss on one day: no cooldown was started
C19_Witness ==
    \E r \in daily_stats :
        /\ r.trades_count = 3
        /\ r.wins = 1
        /\ r.losses = 2
        /\ r.consecutive_losses = 1
        /\ r.cooldown_until = None
        /\ last_close[r.user_id].pnl <= 0

\* C20: the first check or update_on_trade_close of a user on a new UTC day
\* works on a fresh record (counters 0, cooldown_until unset) and leaves the
\* records of earlier days unchanged and undeleted
C20_NewDayFreshRecord ==
    [][\A u \in Users :
        SelectDaily(daily_stats, u, Date(now)) = {} =>
            /\ Check(u) =>
                  /\ daily_stats \subseteq daily_stats'
                  /\ Cardinality(SelectDaily(daily_stats', u, Date(now))) = 1
                  /\ \A r \in SelectDaily(daily_stats', u, Date(now)) :
                        r = DailyStat(r.id, u, Date(now))
                  /\ beh'.allowed
            /\ \A pnl \in Pnls :
                  UpdateOnTradeClose(u, pnl) =>
                      /\ daily_stats \subseteq daily_stats'
                      /\ Cardinality(SelectDaily(daily_stats', u, Date(now))) = 1
                      /\ \A r \in SelectDaily(daily_stats', u, Date(now)) :
                            /\ r.trades_count = 1
                            /\ r.wins = (IF pnl > 0 THEN 1 ELSE 0)
                            /\ r.losses = (IF pnl > 0 THEN 0 ELSE 1)
                            /\ r.consecutive_losses = r.losses
                            /\ r.realized_pnl = pnl
                            /\ r.cooldown_until = None]_vars

\* a user with yesterday's record (two closes and a cooldown) and today's
\* record, which holds one close and no cooldown
C20_Witness ==
    \E r1 \in daily_stats, r2 \in daily_stats :
        /\ r1.user_id = r2.user_id
        /\ r1.day + 1 = r2.day
        /\ r2.day = Date(now)
        /\ r1.trades_count = 2
        /\ r1.cooldown_until # None
        /\ r2.trades_count = 1
        /\ r2.cooldown_until = None

(***************************************************************************)
(* Properties of check_trade (specifications SpecDecision, SpecLadder)     *)
(***************************************************************************)
Range(seq) == {seq[i] : i \in DOMAIN seq}

\* the DailyStat row the call in `frame` was checked against
FrameRow == CHOOSE r \in SelectDaily(daily_stats, frame.user_id, Date(now)) : TRUE

\* the strategy names of the model that contain "breakout" in any letter case
ContainsBreakout(strategy) == strategy \in {"breakout", "Range Breakout"}

\* C6: whenever the behaviour check is not-allowed (cooldown active or
\* trades_count at the daily cap), check_trade returns BLOCK with
\* quality_score 0, reasons = behaviour reasons followed by the risk
\* reasons, and the switch-to-review-mode suggestion, for every candle input
\* and strategy.
C6_BehaviourBlock ==
    (res # NoRes /\ (CooldownActive(FrameRow, now) \/ AtCap(FrameRow))) =>
        /\ res.decision = "BLOCK"
        /\ res.quality_score = 0
        /\ res.reasons =
              BehaviorCheck(FrameRow, now).reasons \o
              compute(frame.account_equity, frame.intended_risk_pct,
                      frame.stop_distance_pct,
                      combine(frame.per_tf).final_volatility).reasons
        /\ "Switch to paper review mode." \in Range(res.suggested_actions)

C6_Witness ==
    /\ res # NoRes
    /\ AtCap(FrameRow)
    /\ ~CooldownActive(FrameRow, now)
    /\ frame.strategy = "breakout"
    /\ res.decision = "BLOCK"
    /\ res.reasons = <<"Max trades/day reached",
                       "Risk capped to max (beginner-safe limit).",
                       "High volatility detected, risk reduced to 0.50%.">>

\* the decision the ladder is claimed to take for a confidence and a score
ClaimedDecision(confidence, quality_score) ==
    IF confidence * 100 < 45 * ConfDen /\ quality_score < 55 THEN "BLOCK"
    ELSE IF quality_score < 35 THEN "BLOCK"
    ELSE IF quality_score < 55 THEN "WARN"
    ELSE "ALLOW"

\* C7: when the behaviour guard allows the trade, the decision is BLOCK if
\* confidence < 0.45 and quality_score < 0.55, otherwise BLOCK if
\* quality_score < 0.35, otherwise WARN if quality_score < 0.55, otherwise
\* ALLOW; it is always one of ALLOW, WARN, BLOCK.
C7_DecisionLadder ==
    res # NoRes =>
        /\ res.decision \in {"ALLOW", "WARN", "BLOCK"}
        /\ frame.beh.allowed =>
              res.decision = ClaimedDecision(frame.multi.confidence, res.quality_score)

C7_Witness ==
    /\ res # NoRes
    /\ frame.beh.allowed
    /\ frame.multi.confidence = 54000
    /\ res.quality_score = 54
    /\ res.decision = "WARN"

\* C8: a strategy whose name contains "breakout", scored against the regime
\* value the aggregator produces for Range and Low volatility, gets the fit
\* score 1.0 - 0.35 - 0.10 = 0.55 with a reason for each deduction.
C8_BreakoutRangeLowScore ==
    ( /\ res # NoRes
      /\ frame.beh.allowed
      /\ ContainsBreakout(frame.strategy)
      /\ frame.multi.final_regime = "range"
      /\ frame.multi.final_volatility = "low" )
    => /\ res.quality_score = 55
       /\ "Breakout strategy underperforms in range markets." \in Range(res.reasons)
       /\ "Low volatility reduces momentum follow-through." \in Range(res.reasons)

\* C9: with the behaviour guard allowing, a strategy name containing
\* "breakout", consensus regime Range, consensus volatility High and
\* confidence >= 0.45, check_trade returns WARN with quality_score 0.50 and
\* the reduce-size suggestion.
C9_BreakoutRangeHighWarns ==
    ( /\ res # NoRes
      /\ frame.beh.allowed
      /\ ContainsBreakout(frame.strategy)
      /\ frame.multi.final_regime = "range"
      /\ frame.multi.final_volatility = "high"
      /\ frame.multi.confidence * 100 >= 45 * ConfDen )
    => /\ res.decision = "WARN"
       /\ res.quality_score = 50
       /\ "Lower position size or wait for confirmation."
              \in Range(res.suggested_actions)

\* C10: for valid inputs every result of check_trade has quality_score in
\* [0,1], aggregator confidence in [0,1], risk_pct >= 0 and
\* position_size_usd >= 0.
C10_ResultRanges ==
    res # NoRes =>
        /\ 0 <= res.quality_score /\ res.quality_score <= 100
        /\ 0 <= frame.multi.confidence /\ frame.multi.confidence <= ConfDen
        /\ 0 <= res.market_regime.conf /\ res.market_regime.conf <= 100
        /\ res.risk_pct >= 0
        /\ res.position_size_usd.num >= 0 /\ res.position_size_usd.den > 0

C10_Witness ==
    /\ res # NoRes
    /\ frame.beh.allowed
    /\ Cardinality(DOMAIN frame.per_tf) = 2
    /\ frame.multi.confidence = ConfDen
    /\ res.decision = "ALLOW"
    /\ res.quality_score = 85
    /\ res.risk_pct = 350
    /\ res.position_size_usd = [num |-> 500000, den |-> 5]

\* C11: combine returns final_regime "trend" if and only if strictly more
\* timeframes are trend than range; every tie resolves to "range"
TrendTFs(per_tf) == {tf \in DOMAIN per_tf : per_tf[tf].regime = "trend"}
RangeTFs(per_tf) == {tf \in DOMAIN per_tf : per_tf[tf].regime = "range"}

C11_MajorityTieRange ==
    res # NoRes =>
        /\ frame.multi.final_regime = "trend"
              <=> Cardinality(TrendTFs(frame.per_tf)) > Cardinality(RangeTFs(frame.per_tf))
        /\ Cardinality(TrendTFs(frame.per_tf)) = Cardinality(RangeTFs(frame.per_tf))
              => frame.multi.final_regime = "range"

\* two timeframes, one trend and one range, combined to range
C11_Witness ==
    /\ res # NoRes
    /\ DOMAIN frame.per_tf = {"1m", "5m"}
    /\ frame.per_tf["1m"].regime = "trend"
    /\ frame.per_tf["5m"].regime = "range"
    /\ frame.multi.final_regime = "range"

(***************************************************************************)
(* Specification of the stateless services called on their own: each call  *)
(* is made on drawn arguments and its value is dropped before the next     *)
(***************************************************************************)
RiskEquities == {1000, 10000}
RiskIntended == {25, 50, 75, 100, 150, 200}
RiskStops == {1, 5, 10, 50, 100, 200}

SeriesShapes == {"flat", "zigzag", "step", "burst", "calm"}
SeriesLens == {0, 1, 2, 61, 62, 121, 200}

\* the closes of a candle series of n candles
Series(shape, n) ==
    [i \in 1 .. n |->
        CASE shape = "flat" -> 100
          [] shape = "zigzag" -> IF i % 2 = 0 THEN 101 ELSE 100
          [] shape = "step" -> IF 2 * i > n THEN 110 ELSE 100
          [] shape = "burst" -> IF i > n - RollingWindow /\ i % 2 = 0 THEN 101 ELSE 100
          [] shape = "calm" -> IF i < n - RegressionWindow /\ i % 2 = 0 THEN 101 ELSE 100]

\* regime.py:21-51: one RegimeService.classify call
Classify(shape, n) ==
    /\ frame = NoFrame
    /\ res = NoRes
    /\ frame' = [op |-> "classify", shape |-> shape, close |-> Series(shape, n),
                 result |-> classify(Series(shape, n))]
    /\ UNCHANGED <<now, daily_stats, beh, last_close, default_session, res, req, trades>>

Hours == 0 .. 23

\* session.py:5-17: one SessionService.detect call at UTC hour `hour`
Detect(hour) ==
    /\ frame = NoFrame
    /\ res = NoRes
    /\ frame' = [op |-> "detect", hour |-> hour, session |-> detect(hour)]
    /\ UNCHANGED <<now, daily_stats, beh, last_close, default_session, res, req, trades>>

\* risk.py:21-37: one RiskService.compute call
Compute(account_equity, intended_risk_pct, stop_distance_pct, volatility_state) ==
    /\ frame = NoFrame
    /\ res = NoRes
    /\ frame' = [op |-> "compute",
                 account_equity |-> account_equity,
                 intended_risk_pct |-> intended_risk_pct,
                 stop_distance_pct |-> stop_distance_pct,
                 volatility_state |-> volatility_state,
                 risk |-> compute(account_equity, intended_risk_pct,
                                  stop_distance_pct, volatility_state)]
    /\ UNCHANGED <<now, daily_stats, beh, last_close, default_session, res, req, trades>>

\* the caller is done with the value of the call
Discard ==
    /\ frame # NoFrame
    /\ res = NoRes
    /\ frame' = NoFrame
    /\ UNCHANGED <<now, daily_stats, beh, last_close, default_session, res, req, trades>>

NextServices ==
    \/ Discard
    \/ \E account_equity \in RiskEquities, intended_risk_pct \in RiskIntended,
          stop_distance_pct \in RiskStops, volatility_state \in VolStates :
            Compute(account_equity, intended_risk_pct, stop_distance_pct,
                    volatility_state)
    \/ \E shape \in SeriesShapes, n \in SeriesLens : Classify(shape, n)
    \/ \E hour \in Hours : Detect(hour)

SpecServices == Init /\ [][NextServices]_vars

\* the call in `frame` is a call of the service operation op
Called(op) == frame # NoFrame /\ frame.op = op

\* C12: compute caps the risk at min(intended, max_risk_per_trade_pct) in low
\* volatility and at min of that and 0.5% in high volatility; the risk-capped
\* reason is present exactly when intended > max_risk_per_trade_pct; equity
\* 10000, intended 2.0%, stop 1.0%, low volatility, cap 1.0% give risk 1.0%
\* and position size 10000
C12_RiskCapped ==
    Called("compute") =>
        LET capped == Min(frame.intended_risk_pct, max_risk_per_trade_pct) IN
        /\ frame.volatility_state = "low" => frame.risk.final_risk_pct = capped
        /\ frame.volatility_state = "high" => frame.risk.final_risk_pct = Min(capped, 50)
        /\ "Risk capped to max (beginner-safe limit)." \in Range(frame.risk.reasons)
              <=> frame.intended_risk_pct > max_risk_per_trade_pct
        /\ ( /\ frame.account_equity = 10000
             /\ frame.intended_risk_pct = 200
             /\ frame.stop_distance_pct = 100
             /\ frame.volatility_state = "low"
             /\ max_risk_per_trade_pct = 100 )
              => /\ frame.risk.final_risk_pct = 100
                 /\ frame.risk.position_size_usd.num
                      = 10000 * frame.risk.position_size_usd.den

\* a high-volatility call whose intended risk is above both caps
C12_Witness ==
    /\ Called("compute")
    /\ frame.volatility_state = "high"
    /\ frame.intended_risk_pct = 200
    /\ frame.risk.final_risk_pct = 50
    /\ Len(frame.risk.reasons) = 2

\* p <= q for fractions with positive denominators
FracLeq(p, q) == p.num * q.den <= q.num * p.den

\* position_size_usd of the call in `frame` with its stop distance replaced
SizeAtStop(stop_distance_pct) ==
    compute(frame.account_equity, frame.intended_risk_pct, stop_distance_pct,
            frame.volatility_state).position_size_usd

\* C13: for fixed equity, intended risk and volatility state, a stop distance
\* b >= a gives a position_size_usd that is <= the one for a
C13_SizeMonotoneInStop ==
    Called("compute") =>
        \A b \in RiskStops :
            frame.stop_distance_pct <= b
                => FracLeq(SizeAtStop(b), frame.risk.position_size_usd)

\* a call whose size strictly shrinks when the stop is widened
C13_Witness ==
    /\ Called("compute")
    /\ frame.stop_distance_pct = 10
    /\ FracLeq(SizeAtStop(100), frame.risk.position_size_usd)
    /\ ~FracLeq(frame.risk.position_size_usd, SizeAtStop(100))

\* C24: compute floors the stop distance at 0.05%: every stop_distance_pct
\* <= 0.05 yields the position_size_usd of stop_distance_pct = 0.05, so the
\* size never exceeds account_equity * risk_pct / 0.05
C24_StopFloor ==
    Called("compute") =>
        LET size == frame.risk.position_size_usd
            bound == [num |-> frame.account_equity * frame.risk.final_risk_pct,
                      den |-> 5]
        IN /\ frame.stop_distance_pct <= 5
                => FracLeq(size, SizeAtStop(5)) /\ FracLeq(SizeAtStop(5), size)
           /\ FracLeq(size, bound)

\* a call with a stop below the floor, sized at the bound
C24_Witness ==
    /\ Called("compute")
    /\ frame.stop_distance_pct = 1
    /\ frame.risk.position_size_usd.num * 5
          = frame.account_equity * frame.risk.final_risk_pct
              * frame.risk.position_size_usd.den

\* C25: classify returns on every short series: at most 61 closes (at most
\* 60 returns) give volatility low, and a single close gives regime range
\* and volatility low
C25_ShortSeriesLow ==
    (Called("classify") /\ Len(frame.close) <= 61) =>
        /\ frame.result.volatility_state = "low"
        /\ frame.result.regime \in {"trend", "range"}
        /\ Len(frame.close) = 1 => frame.result.regime = "range"

\* a series of 61 closes, classified low
C25_Witness ==
    /\ Called("classify")
    /\ Len(frame.close) = 61
    /\ frame.shape = "flat"
    /\ frame.result.volatility_state = "low"

\* C14: a series of 200 identical closes is classified as regime range and
\* volatility low
C14_FlatSeriesRangeLow ==
    ( /\ Called("classify")
      /\ Len(frame.close) = 200
      /\ \A i \in DOMAIN frame.close : frame.close[i] = frame.close[1] )
        => /\ frame.result.regime = "range"
           /\ frame.result.volatility_state = "low"

\* C16: detect is a total function of the UTC hour 0..23: [0,7) is ASIA with
\* multiplier 0.7, [7,13) EU with 0.9, [13,21) US with 1.0, [21,24) WEEKEND
\* with 0.5; every multiplier is in (0, 1]
C16_SessionTable ==
    Called("detect") =>
        LET h == frame.hour
            s == frame.session
        IN /\ h \in 0 .. 6 => s.name = "ASIA" /\ s.risk_multiplier = 7
           /\ h \in 7 .. 12 => s.name = "EU" /\ s.risk_multiplier = 9
           /\ h \in 13 .. 20 => s.name = "US" /\ s.risk_multiplier = 10
           /\ h \in 21 .. 23 => s.name = "WEEKEND" /\ s.risk_multiplier = 5
           /\ s.name \in {"ASIA", "EU", "US", "WEEKEND"}
           /\ 0 < s.risk_multiplier /\ s.risk_multiplier <= 10

\* the first hour of the EU session
C16_Witness ==
    /\ Called("detect")
    /\ frame.hour = 7
    /\ frame.session.name = "EU"

(***************************************************************************)
(* Specification of a service that stays up while the clock moves:         *)
(* check_trade calls from the endpoint (three timeframes) and clock ticks  *)
(***************************************************************************)
SessionPerTFs == [{"1m", "5m", "15m"} -> {RegimeResult(0, "low"), RegimeResult(250, "high")}]

NextSession ==
    \/ Tick
    \/ Return
    \/ \E u \in DecisionUsers, per_tf \in SessionPerTFs, strategy \in Strategies,
          account_equity \in Equities, intended_risk_pct \in IntendedRisks,
          stop_distance_pct \in StopDistances :
            CheckTrade(u, per_tf, strategy, account_equity, intended_risk_pct,
                       stop_distance_pct)

SpecSession == Init /\ [][NextSession]_vars

\* C15: the risk multiplier check_trade applies to risk_pct is the one of the
\* session of the UTC hour at the moment of the call
C15_SessionOfCallTime ==
    res # NoRes =>
        frame.risk.final_risk_pct
            = compute(frame.account_equity, frame.intended_risk_pct,
                      frame.stop_distance_pct, frame.multi.final_volatility).final_risk_pct
                * detect(HourOf(frame.at)).risk_multiplier

(***************************************************************************)
(* Specification of check_trade on candle series: decision.py:98-103       *)
(* classifies the series of every timeframe before combining them          *)
(***************************************************************************)
CandleSeries == {Series("flat", 0), Series("flat", 1), Series("step", 62),
                 Series("zigzag", 62)}
CandlesByTF == [{"1m", "5m", "15m"} -> CandleSeries]

\* decision.py:81-208: one check_trade call on the candles of each timeframe
CheckTradeOnCandles(u, candles_by_tf, strategy, account_equity, intended_risk_pct, stop_distance_pct) ==
    /\ res = NoRes
    /\ \E per_tf \in {[tf \in DOMAIN candles_by_tf |-> classify(candles_by_tf[tf])]} :
       LET g == get_or_create_daily(daily_stats, u, Date(now))
           c == check_trade(BehaviorCheck(g.row, now), per_tf, strategy,
                            account_equity, intended_risk_pct, stop_distance_pct,
                            default_session)
       IN
       /\ daily_stats' = g.stats
       /\ frame' = [user_id |-> u, candles_by_tf |-> candles_by_tf,
                    per_tf |-> per_tf, strategy |-> strategy,
                    account_equity |-> account_equity,
                    intended_risk_pct |-> intended_risk_pct,
                    stop_distance_pct |-> stop_distance_pct,
                    at |-> now,
                    beh |-> c.beh, multi |-> c.multi, risk |-> c.risk]
       /\ res' = c.result
       /\ UNCHANGED <<now, beh, last_close, default_session, req, trades>>

NextCandles ==
    \/ Return
    \/ \E u \in DecisionUsers, candles_by_tf \in CandlesByTF, strategy \in Strategies,
          account_equity \in Equities, intended_risk_pct \in IntendedRisks,
          stop_distance_pct \in StopDistances :
            CheckTradeOnCandles(u, candles_by_tf, strategy, account_equity,
                                intended_risk_pct, stop_distance_pct)

SpecCandles == Init /\ [][NextCandles]_vars

\* C17: a timeframe whose candle series has zero candles is rejected: no
\* decision is returned for a call in which some series is empty
C17_EmptySeriesRejected ==
    res.decision \in {"ALLOW", "WARN", "BLOCK"} =>
        \A tf \in DOMAIN frame.candles_by_tf : Len(frame.candles_by_tf[tf]) > 0

\* C18: check_trade never changes a user's behaviour counters: every existing
\* DailyStat record is the same after the call as before; the call may only
\* create today's record of its user, with zero counters and no cooldown
C18_CheckTradeKeepsCounters ==
    [][(res = NoRes /\ res' # NoRes) =>
        /\ daily_stats \subseteq daily_stats'
        /\ Cardinality(daily_stats' \ daily_stats) <= 1
        /\ \A r \in daily_stats' \ daily_stats :
              r = DailyStat(r.id, frame'.user_id, Date(now))]_vars

\* a check_trade call answered for a user whose record of the day holds two
\* closes and a cooldown
C18_Witness ==
    /\ res # NoRes
    /\ \E r \in daily_stats :
          /\ r.user_id = frame.user_id
          /\ r.trades_count >= 2
          /\ r.cooldown_until # None

\* C22: combine returns final_volatility "high" if and only if at least two
\* timeframes report high; with exactly one timeframe the result is "low"
HighTFs(per_tf) == {tf \in DOMAIN per_tf : per_tf[tf].volatility_state = "high"}

C22_HighNeedsTwoVotes ==
    res # NoRes =>
        /\ frame.multi.final_volatility = "high"
              <=> Cardinality(HighTFs(frame.per_tf)) >= 2
        /\ Cardinality(DOMAIN frame.per_tf) = 1
              => frame.multi.final_volatility = "low"

\* a single timeframe that reports high, combined to low
C22_Witness ==
    /\ res # NoRes
    /\ DOMAIN frame.per_tf = {"1m"}
    /\ frame.per_tf["1m"].volatility_state = "high"
    /\ frame.multi.final_volatility = "low"

(***************************************************************************)
(* Specification of check_trade called with its session argument          *)
(***************************************************************************)
Sessions == {asia, eu, us, weekend}

\* decision.py:81-208: one check_trade call that passes `session`
CheckTradeInSession(u, per_tf, strategy, account_equity, intended_risk_pct, stop_distance_pct, session) ==
    LET g == get_or_create_daily(daily_stats, u, Date(now))
        c == check_trade(BehaviorCheck(g.row, now), per_tf, strategy,
                         account_equity, intended_risk_pct, stop_distance_pct,
                         session)
    IN /\ res = NoRes
       /\ daily_stats' = g.stats
       /\ frame' = [user_id |-> u, per_tf |-> per_tf, strategy |-> strategy,
                    account_equity |-> account_equity,
                    intended_risk_pct |-> intended_risk_pct,
                    stop_distance_pct |-> stop_distance_pct,
                    session |-> session,
                    at |-> now,
                    beh |-> c.beh, multi |-> c.multi, risk |-> c.risk]
       /\ res' = c.result
       /\ UNCHANGED <<now, beh, last_close, default_session, req, trades>>

NextSessionArg ==
    \/ Return
    \/ \E u \in DecisionUsers, per_tf \in SessionPerTFs, strategy \in Strategies,
          account_equity \in Equities, intended_risk_pct \in IntendedRisks,
          stop_distance_pct \in StopDistances, session \in Sessions :
            CheckTradeInSession(u, per_tf, strategy, account_equity,
                                intended_risk_pct, stop_distance_pct, session)

SpecSessionArg == Init /\ [][NextSessionArg]_vars

\* what RiskService.compute returns for the call in `frame`
FrameCompute ==
    compute(frame.account_equity, frame.intended_risk_pct, frame.stop_distance_pct,
            frame.multi.final_volatility)

\* the result of the call in `frame` had it been made in session s
ResultIn(s) ==
    check_trade(frame.beh, frame.per_tf, frame.strategy, frame.account_equity,
                frame.intended_risk_pct, frame.stop_distance_pct, s).result

\* C23: the risk_pct check_trade reports is compute's final_risk_pct times the
\* session risk_multiplier (kept in tenths), its position_size_usd is compute's
\* value unchanged: the same in every session
C23_SessionScalesRiskOnly ==
    res # NoRes =>
        /\ res.risk_pct = FrameCompute.final_risk_pct * frame.session.risk_multiplier
        /\ res.position_size_usd = FrameCompute.position_size_usd
        /\ \A s \in Sessions : ResultIn(s).position_size_usd = res.position_size_usd

\* a call in the weekend session: the risk is halved, the size is not
C23_Witness ==
    /\ res # NoRes
    /\ frame.session = weekend
    /\ res.risk_pct = 5 * FrameCompute.final_risk_pct
    /\ res.position_size_usd = ResultIn(us).position_size_usd
    /\ res.risk_pct # ResultIn(us).risk_pct

EndpointTFs == {"1m", "5m", "15m"}
LowConfidence == "Low regime confidence, conditions unclear."

\* C27: with exactly the three timeframes the check-trade endpoint passes,
\* the confidence of combine is at least 0.55 * 2/3 + 0.25 * 2/3, which is
\* above 0.45, so the answer never comes from the low-confidence branch
C27_ThreeTimeframesConfident ==
    (res # NoRes /\ DOMAIN frame.per_tf = EndpointTFs) =>
        /\ 3 * frame.multi.confidence >= 2 * (66000 + 30000)
        /\ frame.multi.confidence * 100 >= 45 * ConfDen
        /\ LowConfidence \notin Range(res.reasons)
        /\ "Wait for clearer market structure." \notin Range(res.suggested_actions)
        /\ "Proceed only with extra confirmation; consider reducing size."
               \notin Range(res.suggested_actions)

\* three timeframes split two to one on both the regime and the volatility,
\* answered by the ladder
C27_Witness ==
    /\ res # NoRes
    /\ DOMAIN frame.per_tf = EndpointTFs
    /\ frame.beh.allowed
    /\ Cardinality(TrendTFs(frame.per_tf)) = 1
    /\ Cardinality(HighTFs(frame.per_tf)) = 2
    /\ frame.multi.confidence < 66000

(***************************************************************************)
(* Specification of check_trade answers of every kind: calls gated by the  *)
(* behaviour guard and ladder answers over all scores and confidences      *)
(***************************************************************************)
NextAnswers == NextDecision \/ NextLadder

SpecAnswers == Init /\ [][NextAnswers]_vars

WiderStops == "Use wider stops or smaller size; expect faster swings."
FollowPlan == "Proceed only if your setup matches your plan and stop is respected."

\* C26: every check_trade result has a non-empty suggested_actions; on ALLOW
\* or WARN the wider-stop suggestion is present if and only if the consensus
\* volatility is high; the follow-your-plan suggestion is the only entry
\* exactly on ALLOW with confidence >= 0.45 and low volatility, and is absent
\* otherwise
C26_Suggestions ==
    res # NoRes =>
        /\ Len(res.suggested_actions) >= 1
        /\ res.decision \in {"ALLOW", "WARN"} =>
              (WiderStops \in Range(res.suggested_actions)
                  <=> frame.multi.final_volatility = "high")
        /\ res.suggested_actions = <<FollowPlan>>
              <=> /\ res.decision = "ALLOW"
                  /\ frame.multi.confidence * 100 >= 45 * ConfDen
                  /\ frame.multi.final_volatility = "low"
        /\ FollowPlan \in Range(res.suggested_actions)
              => res.suggested_actions = <<FollowPlan>>

\* a WARN answer in high volatility: the lower-size and wider-stop suggestions
C26_Witness ==
    /\ res # NoRes
    /\ res.decision = "WARN"
    /\ frame.multi.final_volatility = "high"
    /\ Len(res.suggested_actions) = 2
    /\ WiderStops \in Range(res.suggested_actions)

(***************************************************************************)
(* Interleaved specification: update_on_trade_close requests, each in its  *)
(* own database session, interleave at their database statements           *)
(***************************************************************************)
Reqs == 1 .. NumReqs
IdleReq == [pc |-> "idle", user_id |-> "none", pnl |-> 0, t0 |-> None,
            ds |-> None]

InitConc ==
    /\ now = 0
    /\ daily_stats = {}
    /\ beh = NoBeh
    /\ last_close = [u \in Users |-> NoClose]
    /\ default_session = detect(HourOf(now))
    /\ frame = NoFrame
    /\ res = NoRes
    /\ req = [r \in Reqs |-> IdleReq]
    /\ trades = {}

\* behavior.py:56-57: the call starts and reads the clock
Begin(r, u, pnl) ==
    /\ req[r].pc = "idle"
    /\ req' = [req EXCEPT ![r] = [pc |-> "select", user_id |-> u, pnl |-> pnl,
                                  t0 |-> now, ds |-> None]]
    /\ UNCHANGED <<now, daily_stats, beh, last_close, default_session, frame, res, trades>>

\* behavior.py:25-28: the SELECT of get_or_create_daily; scalar_one_or_none
\* raises MultipleResultsFound when two rows match
Select(r) ==
    /\ req[r].pc = "select"
    /\ LET rows == SelectDaily(daily_stats, req[r].user_id, Date(req[r].t0)) IN
       req' = [req EXCEPT ![r] =
                 IF Cardinality(rows) > 1 THEN [@ EXCEPT !.pc = "error"]
                 ELSE IF rows = {} THEN [@ EXCEPT !.pc = "insert"]
                 ELSE [@ EXCEPT !.pc = "commit", !.ds = CHOOSE x \in rows : TRUE]]
    /\ UNCHANGED <<now, daily_stats, beh, last_close, default_session, frame, res, trades>>

\* behavior.py:29-31: INSERT of a fresh row and commit
Insert(r) ==
    /\ req[r].pc = "insert"
    /\ daily_stats' = daily_stats \cup
          {DailyStat(NewId(req[r].user_id, Date(req[r].t0), r),
                     req[r].user_id, Date(req[r].t0))}
    /\ req' = [req EXCEPT ![r].pc = "refresh"]
    /\ UNCHANGED <<now, beh, last_close, default_session, frame, res, trades>>

\* behavior.py:32: db.refresh reloads the inserted row by primary key
Refresh(r) ==
    /\ req[r].pc = "refresh"
    /\ LET id == NewId(req[r].user_id, Date(req[r].t0), r) IN
       req' = [req EXCEPT ![r].pc = "commit",
                          ![r].ds = CHOOSE x \in daily_stats : x.id = id]
    /\ UNCHANGED <<now, daily_stats, beh, last_close, default_session, frame, res, trades>>

\* the UPDATE the ORM flushes: the columns whose in-memory value differs from
\* the loaded one are set to the in-memory value, in the row with that id
FlushUpdate(stats, loaded, changed) ==
    {IF x.id = loaded.id
     THEN [c \in DOMAIN x |-> IF changed[c] # loaded[c] THEN changed[c] ELSE x[c]]
     ELSE x : x \in stats}

\* behavior.py:61-76: the in-memory changes, then flush and commit
Commit(r) ==
    /\ req[r].pc = "commit"
    /\ daily_stats' = FlushUpdate(daily_stats, req[r].ds,
                                  ApplyClose(req[r].ds, req[r].pnl, req[r].t0))
    /\ req' = [req EXCEPT ![r].pc = "done"]
    /\ UNCHANGED <<now, beh, last_close, default_session, frame, res, trades>>

NextConc ==
    \/ \E r \in Reqs, u \in Users, pnl \in Pnls : Begin(r, u, pnl)
    \/ \E r \in Reqs : Select(r)
    \/ \E r \in Reqs : Insert(r)
    \/ \E r \in Reqs : Refresh(r)
    \/ \E r \in Reqs : Commit(r)

SpecConc == InitConc /\ [][NextConc]_vars

(***************************************************************************)
(* Properties of interleaved closes (specification SpecConc)               *)
(***************************************************************************)
Counters(ds) ==
    [trades_count |-> ds.trades_count, wins |-> ds.wins, losses |-> ds.losses,
     realized_pnl |-> ds.realized_pnl,
     consecutive_losses |-> ds.consecutive_losses,
     cooldown_until |-> ds.cooldown_until]

\* the orders in which the requests of the set R can run one after another
Orders(R) ==
    {o \in [1 .. Cardinality(R) -> R] :
        \A i, j \in 1 .. Cardinality(R) : o[i] = o[j] => i = j}

\* the record after the requests of `order` ran one after another from ds
RECURSIVE SerialApply(_, _)
SerialApply(ds, order) ==
    IF order = <<>> THEN ds
    ELSE SerialApply(ApplyClose(ds, req[Head(order)].pnl, req[Head(order)].t0),
                     Tail(order))

\* C3: when interleaved update_on_trade_close calls of one user on one day
\* have all committed, the day's stored record is the record that running
\* them one after another in some order produces (no increment lost) and
\* trades_count == wins + losses.
C3_InterleavingSerializable ==
    (\A r \in Reqs : req[r].pc \in {"done", "error"}) =>
        \A u \in Users :
            LET R == {r \in Reqs : req[r].user_id = u}
                rows == SelectDaily(daily_stats, u, Date(now))
            IN R # {} =>
                /\ \A x \in rows : x.trades_count = x.wins + x.losses
                /\ \E o \in Orders(R) :
                      {Counters(x) : x \in rows} =
                          {Counters(SerialApply(DailyStat(None, u, Date(now)), o))}

\* C28: at most one DailyStat record exists per (user, day) in every reachable
\* state, also when two first accesses of one user and day interleave their
\* select-then-insert steps
C28_OneRecordPerUserDay ==
    \A x \in daily_stats, y \in daily_stats :
        (x.user_id = y.user_id /\ x.day = y.day) => x.id = y.id

(***************************************************************************)
(* Interleaved specification with a moving clock: a worker that answered   *)
(* its request takes the next one                                          *)
(***************************************************************************)
\* main.py:192: close_trade returns; the worker is free again
Finish(r) ==
    /\ req[r].pc \in {"done", "error"}
    /\ req' = [req EXCEPT ![r] = IdleReq]
    /\ UNCHANGED <<now, daily_stats, beh, last_close, default_session, frame, res, trades>>

\* closes stored or under way
Pending == Cardinality({r \in Reqs : req[r].pc \notin {"idle", "done", "error"}})

NextConcClock ==
    \/ Tick
    \/ \E r \in Reqs : Finish(r)
    \/ /\ TotalCloses(daily_stats) + Pending < MaxCloses
       /\ \E r \in Reqs, u \in DecisionUsers, pnl \in Pnls : Begin(r, u, pnl)
    \/ \E r \in Reqs : Select(r)
    \/ \E r \in Reqs : Insert(r)
    \/ \E r \in Reqs : Refresh(r)
    \/ \E r \in Reqs : Commit(r)

SpecConcClock == InitConc /\ [][NextConcClock]_vars

\* C21: within one (user, day) record, cooldown_until, once set, is never
\* cleared and never moved to an earlier instant by a later step of any
\* execution
C21_CooldownMonotone ==
    [][\A x \in daily_stats, y \in daily_stats' :
        (x.id = y.id /\ x.cooldown_until # None)
            => /\ y.cooldown_until # None
               /\ y.cooldown_until >= x.cooldown_until]_vars

(***************************************************************************)
(* main.py: the trade endpoints open_trade and close_trade                 *)
(* a nullable column holds <<>> for NULL and <<v>> for the value v         *)
(***************************************************************************)
MaxTrades == 3
Modes == {"PAPER", "LIVE"}
TradeIds == 1 .. MaxTrades

\* models.py: a Trade row as open_trade stores it
Trade(id, user_id) == [id |-> id, user_id |-> user_id, status |-> "OPEN", pnl |-> <<>>]

\* select(Trade).where(Trade.id == trade_id, Trade.user_id == user_id)
SelectTrade(trs, trade_id, user_id) ==
    {x \in trs : x.id = trade_id /\ x.user_id = user_id}

\* main.py:127-157: only PAPER mode is accepted; the row gets a fresh id
open_trade(trs, user_id, mode) ==
    IF mode # "PAPER"
    THEN [status |-> 400, trades |-> trs, id |-> None]
    ELSE [status |-> 200, id |-> Cardinality(trs) + 1,
          trades |-> trs \cup {Trade(Cardinality(trs) + 1, user_id)}]

\* behavior.py:55-76: update_on_trade_close as a function of the table
update_on_trade_close(stats, user_id, pnl, t) ==
    LET g == get_or_create_daily(stats, user_id, Date(t))
    IN (g.stats \ {g.row}) \cup {ApplyClose(g.row, pnl, t)}

\* variant: the close is recorded only while the behaviour guard allows trading
close_trade_Gated(trs, stats, user_id, trade_id, pnl, t) ==
    LET found == SelectTrade(trs, trade_id, user_id)
        trade == CHOOSE x \in found : TRUE
        g == get_or_create_daily(stats, user_id, Date(t))
    IN IF found = {}
       THEN [status |-> 404, trades |-> trs, stats |-> stats]
       ELSE IF trade.status # "OPEN"
       THEN [status |-> 400, trades |-> trs, stats |-> stats]
       ELSE IF ~BehaviorCheck(g.row, t).allowed
       THEN [status |-> 403, trades |-> trs, stats |-> stats]
       ELSE [status |-> 200,
             trades |-> (trs \ {trade}) \cup
                           {[trade EXCEPT !.status = "CLOSED", !.pnl = <<pnl>>]},
             stats |-> update_on_trade_close(stats, user_id, pnl, t)]

\* main.py:160-192: 404 when the user has no trade with that id, 400 when the
\* trade is not OPEN; otherwise the trade is stored as CLOSED and the close
\* is recorded in the daily statistics
close_trade(trs, stats, user_id, trade_id, pnl, t) ==
    LET found == SelectTrade(trs, trade_id, user_id)
        trade == CHOOSE x \in found : TRUE
    IN IF found = {}
       THEN [status |-> 404, trades |-> trs, stats |-> stats]
       ELSE IF trade.status # "OPEN"
       THEN [status |-> 400, trades |-> trs, stats |-> stats]
       ELSE [status |-> 200,
             trades |-> (trs \ {trade}) \cup
                           {[trade EXCEPT !.status = "CLOSED", !.pnl = <<pnl>>]},
             stats |-> update_on_trade_close(stats, user_id, pnl, t)]

(***************************************************************************)
(* Serial specification of the trade endpoints: every request runs to      *)
(* completion; frame holds the request being answered and the status of    *)
(* its response                                                            *)
(***************************************************************************)
OpenTrade(u, mode) ==
    LET o == open_trade(trades, u, mode) IN
    /\ Cardinality(trades) < MaxTrades
    /\ trades' = o.trades
    /\ frame' = [op |-> "open_trade", user_id |-> u, mode |-> mode,
                 trade_id |-> o.id, pnl |-> 0, status |-> o.status]
    /\ UNCHANGED <<now, daily_stats, beh, last_close, default_session, res, req>>

CloseTrade(u, trade_id, pnl) ==
    LET c == close_trade(trades, daily_stats, u, trade_id, pnl, now) IN
    /\ trades' = c.trades
    /\ daily_stats' = c.stats
    /\ last_close' = IF c.status = 200
                     THEN [last_close EXCEPT ![u] = [pnl |-> pnl, day |-> Date(now)]]
                     ELSE last_close
    /\ frame' = [op |-> "close_trade", user_id |-> u, mode |-> "PAPER",
                 trade_id |-> trade_id, pnl |-> pnl, status |-> c.status]
    /\ UNCHANGED <<now, beh, default_session, res, req>>

NextTrades ==
    \/ \E u \in Users, mode \in Modes : OpenTrade(u, mode)
    \/ \E u \in Users, trade_id \in TradeIds, pnl \in Pnls : CloseTrade(u, trade_id, pnl)

SpecTrades == Init /\ [][NextTrades]_vars

\* the day's record of user u holds more closes than max_trades_per_day
OverCap(stats, u) ==
    \E x \in SelectDaily(stats, u, Date(now)) : x.trades_count > max_trades_per_day

\* C30: open_trade and close_trade are never gated by the behaviour guard: a
\* PAPER open always stores an OPEN trade and a close of the user's OPEN trade
\* always stores it as CLOSED and adds one to trades_count, whatever
\* BehaviorService.check would answer, so trades_count grows beyond
\* max_trades_per_day
C30_TradesNotGated ==
    [][/\ (frame'.op = "open_trade" /\ frame'.mode = "PAPER")
            => /\ frame'.status = 200
               /\ Trade(frame'.trade_id, frame'.user_id) \in trades'
       /\ ( /\ frame'.op = "close_trade"
            /\ Trade(frame'.trade_id, frame'.user_id) \in trades )
            => /\ frame'.status = 200
               /\ [Trade(frame'.trade_id, frame'.user_id) EXCEPT
                      !.status = "CLOSED", !.pnl = <<frame'.pnl>>] \in trades'
               /\ RowOf(daily_stats', frame'.user_id, Date(now)).trades_count
                      = RowBefore(frame'.user_id).trades_count + 1]_vars

\* a close was answered 200 although the guard already blocked the user at
\* the cap: the day's trades_count is above max_trades_per_day
C30_Witness ==
    /\ frame # NoFrame
    /\ frame.op = "close_trade"
    /\ frame.status = 200
    /\ ~CheckAt(daily_stats, frame.user_id, now).allowed
    /\ OverCap(daily_stats, frame.user_id)

(***************************************************************************)
(* Interleaved specification of close_trade: each request runs in its own  *)
(* database session and the requests interleave at their database          *)
(* statements; open_trade is a single INSERT                               *)
(***************************************************************************)
OpenTradeConc(u) ==
    /\ Cardinality(trades) < MaxTrades
    /\ trades' = open_trade(trades, u, "PAPER").trades
    /\ UNCHANGED <<now, daily_stats, beh, last_close, default_session, frame, res, req>>

\* main.py:166-177: the SELECT of the trade, 404 when the user has no such
\* trade, 400 when the loaded trade is not OPEN
CloseSelect(r, u, trade_id, pnl) ==
    /\ req[r].pc = "idle"
    /\ LET found == SelectTrade(trades, trade_id, u)
           q == [pc |-> "close", user_id |-> u, pnl |-> pnl, t0 |-> None,
                 ds |-> None, trade_id |-> trade_id, status |-> 200]
       IN req' = [req EXCEPT ![r] =
                    IF found = {} THEN [q EXCEPT !.pc = "error", !.status = 404]
                    ELSE IF (CHOOSE x \in found : TRUE).status # "OPEN"
                    THEN [q EXCEPT !.pc = "error", !.status = 400]
                    ELSE q]
    /\ UNCHANGED <<now, daily_stats, beh, last_close, default_session, frame, res, trades>>

\* main.py:179-189: the UPDATE of the loaded trade, commit and refresh
CloseCommit(r) ==
    /\ req[r].pc = "close"
    /\ trades' = {IF x.id = req[r].trade_id
                  THEN [x EXCEPT !.status = "CLOSED", !.pnl = <<req[r].pnl>>]
                  ELSE x : x \in trades}
    /\ req' = [req EXCEPT ![r].pc = "update"]
    /\ UNCHANGED <<now, daily_stats, beh, last_close, default_session, frame, res>>

\* main.py:191 and behavior.py:56: update_on_trade_close is entered and reads
\* the clock
CloseUpdate(r) ==
    /\ req[r].pc = "update"
    /\ req' = [req EXCEPT ![r].pc = "select", ![r].t0 = now]
    /\ UNCHANGED <<now, daily_stats, beh, last_close, default_session, frame, res, trades>>

NextTradesConc ==
    \/ \E u \in DecisionUsers : OpenTradeConc(u)
    \/ \E r \in Reqs, u \in Users, trade_id \in TradeIds, pnl \in Pnls :
          CloseSelect(r, u, trade_id, pnl)
    \/ \E r \in Reqs : CloseCommit(r)
    \/ \E r \in Reqs : CloseUpdate(r)
    \/ \E r \in Reqs : Select(r)
    \/ \E r \in Reqs : Insert(r)
    \/ \E r \in Reqs : Refresh(r)
    \/ \E r \in Reqs : Commit(r)

SpecTradesConc == InitConc /\ [][NextTradesConc]_vars

\* the requests that entered update_on_trade_close for the trade with this id
Counted(trade_id) ==
    {r \in Reqs : /\ req[r].pc \in {"select", "insert", "refresh", "commit", "done"}
                  /\ req[r].trade_id = trade_id}

\* C29: each trade is counted in the daily statistics at most once: after any
\* sequence or interleaving of close_trade requests for the same trade,
\* update_on_trade_close has run at most once for it; a request for a trade
\* that is not OPEN is answered 400 (404 for another user's trade)
C29_CountedAtMostOnce ==
    \A t \in trades : Cardinality(Counted(t.id)) <= 1

====
